---- MODULE Spec2Model ----
(***************************************************************************)
(* A model of the eBPF object loader of loader/Loader.cpp: loadProg and    *)
(* the functions it calls (readCodeSections, createMaps, applyMapRelo,     *)
(* loadCodeSections), run repeatedly against one BPF filesystem.           *)
(*                                                                         *)
(* A string of the program is a sequence of pieces, so that prefix tests,  *)
(* substring cuts and concatenations are computed. Every character the     *)
(* code looks for on its own ('/', '.', '@', '$') is a piece of its own;   *)
(* a run of other characters that the code only copies or compares as a    *)
(* whole ("tracepoint", "_def", "map_") is one piece.                      *)
(* An ELF object is a record of its sections (in section-header order),    *)
(* its symbol table (in file order) and the decoded maps/progs records.    *)
(***************************************************************************)
EXTENDS Integers, Sequences, FiniteSets, TLC

\* ------------------------------------------------------------------ bounds

\* Number of loadProg invocations in one behaviour.
MaxLoads == 2
\* Number of failing system calls in one behaviour.
MaxFaults == 1

\* --------------------------------------------------------------- constants

BPF_PROG_TYPE_UNSPEC == 0
BPF_PROG_TYPE_SOCKET_FILTER == 1
BPF_PROG_TYPE_KPROBE == 2
BPF_PROG_TYPE_TRACEPOINT == 5
BPF_PROG_TYPE_PERF_EVENT == 7
\* The value /sys/fs/fuse/bpf_prog_type_fuse holds on a fuse-bpf kernel.
BPF_PROG_TYPE_FUSE == 33

BPF_MAP_TYPE_HASH == 1
BPF_MAP_TYPE_DEVMAP == 14
BPF_MAP_TYPE_DEVMAP_HASH == 25
BPF_MAP_TYPE_RINGBUF == 27

\* BPF_LD | BPF_IMM | BPF_DW
BPF_LD_IMM_DW == 24
BPF_PSEUDO_MAP_FD == 1
\* sizeof(struct bpf_insn)
SizeofInsn == 8

page_size == 4096

\* return values of the loader
RetOk == 0
RetFail == -1
RetNotFound == -2
RetEINVAL == -22
RetENOTUNIQ == -76
\* errno of a failing system call (one representative: EACCES)
EnvErrno == 13
\* what unique_fd() holds
InvalidFd == -1
\* the first descriptor a load gets after the ELF file's own
FirstFd == 4

\* mode, uid and gid of a fresh pin before chmod/chown
DefaultMode == 384
RootId == 0
\* 0440
ProgMode == 288

\* KVER(a, b, c)
KVER(a, b, c) == a * 65536 + b * 256 + c
\* Versions are only compared. TLC's integers end at 2^31 - 1, which
\* stands for 0xffffffff, as 0x7fff0000 does for 0xffff0000: both lie above
\* every kernel version, in the same order.
KVerMax == 2147483647
KVerFuture == 2147418112

\* ----------------------------------------------------------------- strings

NoChars == << >>
Slash == "/"
StartsWith(s, p) == Len(s) >= Len(p) /\ SubSeq(s, 1, Len(p)) = p

\* std::replace(begin, end, a, b)
ReplaceChar(s, a, b) == [k \in 1..Len(s) |-> IF s[k] = a THEN b ELSE s[k]]

\* s.find_last_of(c): the 1-based position of the last c, 0 for npos
FindLastOf(s, c) ==
    LET hits == {k \in 1..Len(s) : s[k] = c}
    IN IF hits = {} THEN 0 ELSE CHOOSE k \in hits : \A h \in hits : h <= k

\* s.substr(0, s.find_last_of(c))
CutAtLast(s, c) ==
    LET p == FindLastOf(s, c)
    IN IF p = 0 THEN s ELSE SubSeq(s, 1, p - 1)

\* android::base::Split(path, "/").back()
LastComponent(path) ==
    LET p == FindLastOf(path, Slash)
    IN SubSeq(path, p + 1, Len(path))

pathToObjName(path) == CutAtLast(CutAtLast(LastComponent(path), "."), "@")

BPF_FS_PATH == <<"/sys/fs/bpf/">>
StrMap == <<"map_">>
StrProg == <<"prog_">>
StrDef == <<"_def">>
StrRel == <<".rel">>
StrMaps == <<"maps">>
StrProgs == <<"progs">>
StrLicense == <<"license">>
StrCritical == <<"critical">>
StrFuse == <<"fuse", "/">>

\* ------------------------------------------------------ section classifier

sectionNameTypes ==
    << [name |-> <<"kprobe", "/">>, type |-> BPF_PROG_TYPE_KPROBE],
       [name |-> <<"kretprobe", "/">>, type |-> BPF_PROG_TYPE_KPROBE],
       [name |-> <<"perf_event", "/">>, type |-> BPF_PROG_TYPE_PERF_EVENT],
       [name |-> <<"skfilter", "/">>, type |-> BPF_PROG_TYPE_SOCKET_FILTER],
       [name |-> <<"tracepoint", "/">>, type |-> BPF_PROG_TYPE_TRACEPOINT],
       [name |-> <<"uprobe", "/">>, type |-> BPF_PROG_TYPE_KPROBE],
       [name |-> <<"uretprobe", "/">>, type |-> BPF_PROG_TYPE_KPROBE] >>

\* the first table entry whose prefix the name starts with, 0 for none
FirstPrefix(name) ==
    LET hits == {k \in 1..Len(sectionNameTypes) : StartsWith(name, sectionNameTypes[k].name)}
    IN IF hits = {} THEN 0 ELSE CHOOSE k \in hits : \A h \in hits : k <= h

\* fuse is what getFuseProgType() reads
getSectionType(name, fuse) ==
    IF FirstPrefix(name) # 0 THEN sectionNameTypes[FirstPrefix(name)].type
    ELSE IF StartsWith(name, StrFuse) THEN fuse
    ELSE BPF_PROG_TYPE_UNSPEC

\* the name of the first table entry with this type
getSectionName(type) ==
    LET hits == {k \in 1..Len(sectionNameTypes) : sectionNameTypes[k].type = type}
    IN IF hits = {} THEN <<"UNKNOWN SECTION NAME ", ToString(type)>>
       ELSE sectionNameTypes[CHOOSE k \in hits : \A h \in hits : k <= h].name

\* The caller's allow-list: null for nullptr, else the types array.
IsAllowed(type, allowed, fuse) ==
    IF allowed.null THEN TRUE
    ELSE \E k \in 1..Len(allowed.types) :
            IF allowed.types[k] = BPF_PROG_TYPE_UNSPEC
            THEN type = fuse
            ELSE type = allowed.types[k]

\* -------------------------------------------------------------- ELF objects

\* Sections and symbols are numbered from 0 as in the file: section i is
\* o.sh[i + 1], symbol i is o.symtab[i + 1].
Insn(code, imm) == [code |-> code, dst_reg |-> 1, src_reg |-> 0, off |-> 0, imm |-> imm]
LdImm64 == Insn(BPF_LD_IMM_DW, 0)
Pseudo == Insn(0, 0)
\* two instructions with other opcodes: BPF_ALU64|BPF_MOV|BPF_K, BPF_JMP|BPF_EXIT
MovK == Insn(183, 7)
Exit == Insn(149, 0)

Plain(name) == [name |-> name, type |-> "other", data |-> << >>, rel |-> << >>, bad |-> FALSE]
SymTabSec == [name |-> <<".symtab">>, type |-> "symtab", data |-> << >>, rel |-> << >>, bad |-> FALSE]
\* bad: the kernel verifier rejects these instructions
Code(name, data, bad) == [name |-> name, type |-> "other", data |-> data, rel |-> << >>, bad |-> bad]
RelSec(name, rel) == [name |-> StrRel \o name, type |-> "other", data |-> << >>, rel |-> rel, bad |-> FALSE]
Rel(offset, sym) == [r_offset |-> offset, sym |-> sym]

Sym(name, shndx, value, type) == [name |-> name, shndx |-> shndx, value |-> value, type |-> type]
NullSym == Sym(NoChars, 0, 0, "NOTYPE")

MapDef(type, vs, me, minK, maxK, shared, mode, gid) ==
    [type |-> type, key_size |-> 4, value_size |-> vs, max_entries |-> me,
     map_flags |-> {}, zero |-> 0, uid |-> RootId, gid |-> gid, mode |-> mode,
     min_kver |-> minK, max_kver |-> maxK, shared |-> shared]

ProgDef(minK, maxK, optional, gid) ==
    [uid |-> RootId, gid |-> gid, min_kver |-> minK, max_kver |-> maxK, optional |-> optional]

Tp(n) == <<"tracepoint", "/">> \o n
Kp(n) == <<"kprobe", "/">> \o n
Krp(n) == <<"kretprobe", "/">> \o n
Skf(n) == <<"skfilter", "/">> \o n
Pev(n) == <<"perf_event", "/">> \o n
Dir(f) == <<"/", "e", "/">> \o f

GidNet == 3
GidSys == 5
Mode660 == 432
Mode640 == 416

M_m == MapDef(BPF_MAP_TYPE_HASH, 4, 16, 0, KVerMax, TRUE, Mode660, GidNet)
M_m8 == MapDef(BPF_MAP_TYPE_HASH, 8, 16, 0, KVerMax, TRUE, Mode660, GidNet)
M_n == MapDef(BPF_MAP_TYPE_DEVMAP_HASH, 4, 16, 0, KVerMax, FALSE, Mode640, GidSys)
M_d == MapDef(BPF_MAP_TYPE_DEVMAP, 4, 16, 0, KVerMax, FALSE, Mode640, GidSys)
M_r == MapDef(BPF_MAP_TYPE_RINGBUF, 0, 1, KVER(5, 4, 0), KVerMax, FALSE, Mode660, GidNet)
M_k == MapDef(BPF_MAP_TYPE_RINGBUF, 0, 1, 0, KVerMax, FALSE, Mode660, GidNet)
M_zero == [M_k EXCEPT !.zero = 1]

\* f@1.o: a shared map m and a device map n; tracepoint/a (relocated
\* against m and n, with one entry on a MOV and one naming a function) and an
\* optional kprobe/b the verifier rejects.
ObjA ==
    [path |-> Dir(<<"f", "@", "1", ".", "o">>), exists |-> TRUE,
     sh |-> << Plain(NoChars), Plain(StrLicense), Plain(StrCritical), Plain(StrMaps),
               Plain(StrProgs),
               Code(Tp(<<"a">>), <<LdImm64, Pseudo, LdImm64, Pseudo, MovK, Exit>>, FALSE),
               RelSec(Tp(<<"a">>), <<Rel(0, 3), Rel(16, 2), Rel(32, 3), Rel(40, 1)>>),
               Code(Kp(<<"b">>), <<Exit>>, TRUE),
               SymTabSec >>,
     symtab |-> << NullSym, Sym(<<"a">>, 5, 0, "FUNC"), Sym(<<"n">>, 3, 1, "OBJECT"),
                   Sym(<<"m">>, 3, 0, "OBJECT"), Sym(<<"b">>, 7, 0, "FUNC"),
                   Sym(<<"b">> \o StrDef, 4, 1, "OBJECT"), Sym(<<"a">> \o StrDef, 4, 0, "OBJECT") >>,
     md |-> <<M_m, M_n>>, mdExtra |-> 0,
     pd |-> <<ProgDef(0, KVerMax, FALSE, GidNet), ProgDef(0, KVerMax, TRUE, GidSys)>>, pdExtra |-> 0]

\* g.o: the same shared map m and a ring buffer r for 5.4+; skfilter/c$x for
\* kernels before 5.4 and skfilter/c$y for 5.4+, pinned under one name.
ObjB ==
    [path |-> Dir(<<"g", ".", "o">>), exists |-> TRUE,
     sh |-> << Plain(NoChars), Plain(StrLicense), Plain(StrMaps), Plain(StrProgs),
               Code(Skf(<<"c", "$", "x">>), <<LdImm64, Pseudo, LdImm64, Pseudo, Exit>>, FALSE),
               RelSec(Skf(<<"c", "$", "x">>), <<Rel(0, 1), Rel(16, 2)>>),
               Code(Skf(<<"c", "$", "y">>), <<Exit>>, FALSE),
               SymTabSec >>,
     symtab |-> << NullSym, Sym(<<"m">>, 2, 0, "OBJECT"), Sym(<<"r">>, 2, 1, "OBJECT"),
                   Sym(<<"x">>, 4, 0, "FUNC"), Sym(<<"y">>, 6, 0, "FUNC"),
                   Sym(<<"x">> \o StrDef, 3, 0, "OBJECT"), Sym(<<"y">> \o StrDef, 3, 1, "OBJECT") >>,
     md |-> <<M_m, M_r>>, mdExtra |-> 0,
     pd |-> <<ProgDef(0, KVER(5, 4, 0), FALSE, GidNet), ProgDef(KVER(5, 4, 0), KVerMax, FALSE, GidNet)>>,
     pdExtra |-> 0]

\* h.o: a device map d and the shared map m declared with another value
\* size; perf_event/p fails verification and is not optional, perf_event/q is fine.
ObjC ==
    [path |-> Dir(<<"h", ".", "o">>), exists |-> TRUE,
     sh |-> << Plain(NoChars), Plain(StrLicense), Plain(StrMaps), Plain(StrProgs),
               Code(Pev(<<"p">>), <<Exit>>, TRUE),
               Code(Pev(<<"q">>), <<Exit>>, FALSE),
               SymTabSec >>,
     symtab |-> << NullSym, Sym(<<"m">>, 2, 1, "OBJECT"), Sym(<<"d">>, 2, 0, "OBJECT"),
                   Sym(<<"p">>, 4, 0, "FUNC"), Sym(<<"q">>, 5, 0, "FUNC"),
                   Sym(<<"p">> \o StrDef, 3, 0, "OBJECT"), Sym(<<"q">> \o StrDef, 3, 1, "OBJECT") >>,
     md |-> <<M_d, M_m8>>, mdExtra |-> 0,
     pd |-> <<ProgDef(0, KVerMax, FALSE, GidNet), ProgDef(0, KVerMax, FALSE, GidNet)>>,
     pdExtra |-> 0]

\* i.o: no maps, one program for kernels from 0xffff0000 on.
ObjD ==
    [path |-> Dir(<<"i", ".", "o">>), exists |-> TRUE,
     sh |-> << Plain(NoChars), Plain(StrLicense), Plain(StrProgs),
               Code(Tp(<<"s">>), <<Exit>>, FALSE), SymTabSec >>,
     symtab |-> << NullSym, Sym(<<"s">>, 3, 0, "FUNC"), Sym(<<"s">> \o StrDef, 2, 0, "OBJECT") >>,
     md |-> << >>, mdExtra |-> 0,
     pd |-> <<ProgDef(KVerFuture, KVerMax, FALSE, GidNet)>>, pdExtra |-> 0]

\* j.o: a ring buffer k; kretprobe/t whose first relocation entry names a
\* symbol index beyond the symbol table.
ObjE ==
    [path |-> Dir(<<"j", ".", "o">>), exists |-> TRUE,
     sh |-> << Plain(NoChars), Plain(StrLicense), Plain(StrMaps), Plain(StrProgs),
               Code(Krp(<<"t">>), <<LdImm64, Pseudo, LdImm64, Pseudo, Exit>>, FALSE),
               RelSec(Krp(<<"t">>), <<Rel(0, 9), Rel(16, 1)>>),
               SymTabSec >>,
     symtab |-> << NullSym, Sym(<<"k">>, 2, 0, "OBJECT"), Sym(<<"t">>, 4, 0, "FUNC"),
                   Sym(<<"t">> \o StrDef, 3, 0, "OBJECT") >>,
     md |-> <<M_k>>, mdExtra |-> 0,
     pd |-> <<ProgDef(0, KVerMax, FALSE, GidNet)>>, pdExtra |-> 0]

\* u.o: a ring buffer k; a fuse/u program; tracepoint/e, which owns no
\* function symbol, followed by skfilter/f, which does.
ObjU ==
    [path |-> Dir(<<"u", ".", "o">>), exists |-> TRUE,
     sh |-> << Plain(NoChars), Plain(StrLicense), Plain(StrMaps), Plain(StrProgs),
               Code(StrFuse \o <<"u">>, <<Exit>>, FALSE),
               Code(Tp(<<"e">>), <<Exit>>, FALSE),
               Code(Skf(<<"f">>), <<Exit>>, FALSE),
               SymTabSec >>,
     symtab |-> << NullSym, Sym(<<"k">>, 2, 0, "OBJECT"), Sym(<<"u">>, 4, 0, "FUNC"),
                   Sym(<<"e">>, 5, 0, "NOTYPE"), Sym(<<"f">>, 6, 0, "FUNC"),
                   Sym(<<"u">> \o StrDef, 3, 0, "OBJECT"), Sym(<<"f">> \o StrDef, 3, 1, "OBJECT") >>,
     md |-> <<M_k>>, mdExtra |-> 0,
     pd |-> <<ProgDef(0, KVerMax, FALSE, GidNet), ProgDef(0, KVerMax, FALSE, GidNet)>>,
     pdExtra |-> 0]

\* z.o: a map record whose reserved field is not zero.
ObjZ ==
    [path |-> Dir(<<"z", ".", "o">>), exists |-> TRUE,
     sh |-> << Plain(NoChars), Plain(StrLicense), Plain(StrMaps), Plain(StrProgs), SymTabSec >>,
     symtab |-> << NullSym, Sym(<<"k">>, 2, 0, "OBJECT") >>,
     md |-> <<M_zero>>, mdExtra |-> 0, pd |-> << >>, pdExtra |-> 0]

\* w.o: a maps section whose size is no multiple of the record size.
ObjW == [ObjZ EXCEPT !.path = Dir(<<"w", ".", "o">>), !.md = <<M_k>>, !.mdExtra = 1]

\* v.o: one map record, two symbols in the maps section.
ObjV ==
    [ObjZ EXCEPT !.path = Dir(<<"v", ".", "o">>), !.md = <<M_k>>,
                 !.symtab = << NullSym, Sym(<<"k">>, 2, 0, "OBJECT"), Sym(<<"g">>, 2, 1, "OBJECT") >>]

\* n.o: no maps; tracepoint/g with its g_def, then kprobe/h whose function
\* symbol h has no h_def in the progs section.
ObjN ==
    [path |-> Dir(<<"n", ".", "o">>), exists |-> TRUE,
     sh |-> << Plain(NoChars), Plain(StrLicense), Plain(StrProgs),
               Code(Tp(<<"g">>), <<Exit>>, FALSE),
               Code(Kp(<<"h">>), <<Exit>>, FALSE),
               SymTabSec >>,
     symtab |-> << NullSym, Sym(<<"g">>, 3, 0, "FUNC"), Sym(<<"h">>, 4, 0, "FUNC"),
                   Sym(<<"g">> \o StrDef, 2, 0, "OBJECT") >>,
     md |-> << >>, mdExtra |-> 0,
     pd |-> <<ProgDef(0, KVerMax, FALSE, GidNet)>>, pdExtra |-> 0]

\* l.o: no license section.
ObjL ==
    [path |-> Dir(<<"l", ".", "o">>), exists |-> TRUE,
     sh |-> << Plain(NoChars), Plain(StrProgs), SymTabSec >>,
     symtab |-> << NullSym >>, md |-> << >>, mdExtra |-> 0, pd |-> << >>, pdExtra |-> 0]

\* a path with no file behind it
ObjNone == [ObjL EXCEPT !.path = Dir(<<"o">>), !.exists = FALSE]

ObjIds == {"A", "B", "C", "D", "E", "N", "U", "V", "Z", "W", "L", "None"}

Obj(id) ==
    CASE id = "A" -> ObjA [] id = "B" -> ObjB [] id = "C" -> ObjC [] id = "D" -> ObjD
      [] id = "E" -> ObjE [] id = "U" -> ObjU [] id = "V" -> ObjV [] id = "Z" -> ObjZ [] id = "W" -> ObjW [] id = "L" -> ObjL
      [] id = "N" -> ObjN [] id = "None" -> ObjNone

\* The locations a load is called with.
LocIds == {"any", "t"}

Loc(id) ==
    IF id = "any"
    THEN [prefix |-> NoChars, allowed |-> [null |-> TRUE, types |-> << >>]]
    ELSE [prefix |-> <<"test_">>,
          allowed |-> [null |-> FALSE,
                       types |-> <<BPF_PROG_TYPE_UNSPEC, BPF_PROG_TYPE_TRACEPOINT,
                                   BPF_PROG_TYPE_KPROBE>>]]

\* --------------------------------------------------------------- ELF reader

NSections(o) == Len(o.sh)
ShAt(o, i) == o.sh[i + 1]

\* index of the first section with this name, -1 for none
SectionIndex(o, name) ==
    LET hits == {i \in 0..(NSections(o) - 1) : ShAt(o, i).name = name}
    IN IF hits = {} THEN -1 ELSE CHOOSE i \in hits : \A h \in hits : i <= h

\* the return value of readSectionByName
readSectionByName(o, name) == IF SectionIndex(o, name) = -1 THEN RetNotFound ELSE RetOk

HasSymTab(o) == \E i \in 0..(NSections(o) - 1) : ShAt(o, i).type = "symtab"

\* std::sort with symCompare: ascending st_value. Symbols of one section have
\* distinct values, so the order of equal values does not reach any result.
SortByValue(syms) ==
    LET n == Len(syms)
        rank == [k \in 1..n |->
                    Cardinality({j \in 1..n : \/ syms[j].value < syms[k].value
                                              \/ (syms[j].value = syms[k].value /\ j <= k)})]
    IN [r \in 1..n |-> syms[CHOOSE k \in 1..n : rank[k] = r]]

readSymTab(o, sort) == IF sort THEN SortByValue(o.symtab) ELSE o.symtab

AnyType == "ANY"

\* [ret, names]
getSectionSymNames(o, sectionName, symbolType) ==
    LET symtab == readSymTab(o, TRUE)
        sec_idx == SectionIndex(o, sectionName)
        Keep(s) == (symbolType = AnyType \/ s.type = symbolType) /\ s.shndx = sec_idx
        kept == SelectSeq(symtab, Keep)
    IN IF ~HasSymTab(o) THEN [ret |-> RetNotFound, names |-> << >>]
       ELSE IF sec_idx = -1 THEN [ret |-> RetFail, names |-> << >>]
       ELSE [ret |-> RetOk, names |-> [k \in 1..Len(kept) |-> kept[k].name]]

\* [ret, name]
getSymNameByIdx(o, index) ==
    IF ~HasSymTab(o) THEN [ret |-> RetNotFound, name |-> NoChars]
    ELSE IF index >= Len(o.symtab) THEN [ret |-> RetFail, name |-> NoChars]
    ELSE [ret |-> RetOk, name |-> o.symtab[index + 1].name]

readProgDefs(o) ==
    IF readSectionByName(o, StrProgs) # RetOk THEN readSectionByName(o, StrProgs)
    ELSE IF o.pdExtra # 0 THEN RetFail
    ELSE RetOk

\* ------------------------------------------------------- readCodeSections

\* the first record of the progs section, whatever its name
C13_FirstProgDef(o, progDefNames, sym) ==
    IF Len(o.pd) = 0 THEN << >> ELSE << o.pd[1] >>

\* optional<struct bpf_prog_def>: the empty sequence or one record
FindProgDef(o, progDefNames, sym) ==
    LET hits == {k \in 1..Len(progDefNames) : progDefNames[k] = sym \o StrDef}
    IN IF hits = {} THEN << >>
       ELSE << o.pd[CHOOSE k \in hits : \A h \in hits : k <= h] >>

\* the codeSection built from section i, whose function symbols are csSymNames
MakeCodeSection(o, i, ptype, csSymNames, progDefNames) ==
    LET oldName == ShAt(o, i).name
        data == ShAt(o, i).data
    IN [type |-> ptype,
        name |-> ReplaceChar(oldName, Slash, "_"),
        data |-> data,
        rel_data |-> IF Len(data) > 0 /\ i < NSections(o)
                        /\ ShAt(o, i + 1).name = StrRel \o oldName
                     THEN ShAt(o, i + 1).rel ELSE << >>,
        prog_def |-> FindProgDef(o, progDefNames, csSymNames[1]),
        prog_fd |-> InvalidFd,
        sec |-> i]

RECURSIVE readCodeSectionsFrom(_, _, _, _, _, _)
\* the loop over the section headers from section i on: [ret, cs]
readCodeSectionsFrom(o, i, cs, allowed, fuse, progDefNames) ==
    IF i >= NSections(o) THEN [ret |-> RetOk, cs |-> cs]
    ELSE
      LET name == ShAt(o, i).name
          ptype == getSectionType(name, fuse)
          syms == getSectionSymNames(o, name, "FUNC")
      IN IF ptype = BPF_PROG_TYPE_UNSPEC
         THEN readCodeSectionsFrom(o, i + 1, cs, allowed, fuse, progDefNames)
         ELSE IF ~IsAllowed(ptype, allowed, fuse) THEN [ret |-> RetFail, cs |-> cs]
         ELSE IF syms.ret # RetOk \/ Len(syms.names) = 0 THEN [ret |-> syms.ret, cs |-> cs]
         ELSE readCodeSectionsFrom(o, i + 1,
                 IF Len(ShAt(o, i).data) > 0
                 THEN Append(cs, MakeCodeSection(o, i, ptype, syms.names, progDefNames))
                 ELSE cs,
                 allowed, fuse, progDefNames)

\* [ret, cs]
readCodeSections(o, allowed, fuse) ==
    LET pdn == getSectionSymNames(o, StrProgs, AnyType)
    IN IF readProgDefs(o) # RetOk THEN [ret |-> readProgDefs(o), cs |-> << >>]
       ELSE IF Len(o.pd) # 0 /\ pdn.ret # RetOk THEN [ret |-> pdn.ret, cs |-> << >>]
       ELSE readCodeSectionsFrom(o, 0, << >>, allowed, fuse, pdn.names)

\* ------------------------------------------------------------- map installer

RDONLY_PROG == "BPF_F_RDONLY_PROG"

IsDevMap(type) == type = BPF_MAP_TYPE_DEVMAP \/ type = BPF_MAP_TYPE_DEVMAP_HASH

isAtLeastKernelVersion(kv, a, b, c) == kv >= KVER(a, b, c)

\* the map type createMaps asks for
AdjustedType(def, kv) ==
    IF def.type = BPF_MAP_TYPE_DEVMAP_HASH /\ ~isAtLeastKernelVersion(kv, 5, 4, 0)
    THEN BPF_MAP_TYPE_HASH ELSE def.type

\* the max_entries createMaps asks for
AdjustedMaxEntries(def, type) ==
    IF type = BPF_MAP_TYPE_RINGBUF /\ def.max_entries < page_size
    THEN page_size ELSE def.max_entries

\* the BPF_MAP_CREATE request
CreateReq(def, kv) ==
    [map_type |-> AdjustedType(def, kv), key_size |-> def.key_size,
     value_size |-> def.value_size,
     max_entries |-> AdjustedMaxEntries(def, AdjustedType(def, kv)),
     map_flags |-> def.map_flags]

\* The map the kernel makes of a request: dev_map_init_map() sets the
\* read-only-from-program flag on device maps.
KernelMap(req, id) ==
    [kind |-> "map", id |-> id, type |-> req.map_type, key_size |-> req.key_size,
     value_size |-> req.value_size, max_entries |-> req.max_entries,
     map_flags |-> IF IsDevMap(req.map_type) THEN req.map_flags \cup {RDONLY_PROG}
                   ELSE req.map_flags]

\* Kernel objects are told apart by id. An object that is never pinned is
\* gone when its load returns, so ids are counted per pinned object.
KernelProg(id) ==
    [kind |-> "prog", id |-> id, type |-> 0, key_size |-> 0, value_size |-> 0,
     max_entries |-> 0, map_flags |-> {}]

\* the comparison without the value size
C2_ValueSizeUnchecked(live, mapDef, type) ==
    /\ live.kind = "map"
    /\ live.type = type
    /\ live.key_size = mapDef.key_size

\* live is the kernel object behind the descriptor
mapMatchesExpectations(live, mapDef, type) ==
    LET desired_map_flags == IF IsDevMap(type) THEN mapDef.map_flags \cup {RDONLY_PROG}
                             ELSE mapDef.map_flags
        desired_max_entries == IF type = BPF_MAP_TYPE_RINGBUF /\ mapDef.max_entries < page_size
                               THEN page_size ELSE mapDef.max_entries
    IN /\ live.kind = "map"
       /\ live.type = type
       /\ live.key_size = mapDef.key_size
       /\ live.value_size = mapDef.value_size
       /\ live.max_entries = desired_max_entries
       /\ live.map_flags = desired_map_flags

\* the range test without its upper end
C4_MaxKverUnchecked(kv, def) == ~(kv < def.min_kver)

\* kvers < min_kver and kvers >= max_kver both false
KverInRange(kv, def) == ~(kv < def.min_kver) /\ ~(kv >= def.max_kver)

\* the pin location with the object's name in it whatever the shared flag
C14_SharedIgnored(o, prefix, def, mapName) ==
    BPF_FS_PATH \o prefix \o StrMap \o pathToObjName(o.path) \o <<"_">> \o mapName

mapPinLoc(o, prefix, def, mapName) ==
    BPF_FS_PATH \o prefix \o StrMap
        \o (IF def.shared THEN NoChars ELSE pathToObjName(o.path)) \o <<"_">> \o mapName

progPinLoc(o, prefix, csName) ==
    BPF_FS_PATH \o prefix \o StrProg \o pathToObjName(o.path) \o <<"_">> \o CutAtLast(csName, "$")

\* ------------------------------------------------------------------ relocator

applyRelo(insns, offset, fd) ==
    LET insnIndex == offset \div SizeofInsn
    IN IF insns[insnIndex + 1].code # BPF_LD_IMM_DW THEN insns
       ELSE [insns EXCEPT ![insnIndex + 1].imm = fd,
                          ![insnIndex + 1].src_reg = BPF_PSEUDO_MAP_FD]

\* index (from 0) of the first map name equal to symName, -1 for none
MapIndex(mapNames, symName) ==
    LET hits == {j \in 1..Len(mapNames) : mapNames[j] = symName}
    IN IF hits = {} THEN -1 ELSE (CHOOSE j \in hits : \A h \in hits : j <= h) - 1

RECURSIVE applyMapReloFrom(_, _, _, _, _, _, _)
\* the two loops from code section k (from 0), relocation entry i on:
\* [cs, ret, patched], patched listing the <<k, insn index, map index>> applyRelo wrote
applyMapReloFrom(o, mapNames, fds, cs, k, i, patched) ==
    IF k >= Len(cs) THEN [cs |-> cs, ret |-> RetOk, patched |-> patched]
    ELSE IF i >= Len(cs[k + 1].rel_data)
    THEN applyMapReloFrom(o, mapNames, fds, cs, k + 1, 0, patched)
    ELSE
      LET rel == cs[k + 1].rel_data[i + 1]
          sym == getSymNameByIdx(o, rel.sym)
          j == MapIndex(mapNames, sym.name)
          insns == applyRelo(cs[k + 1].data, rel.r_offset, fds[j + 1])
      IN IF sym.ret # RetOk THEN [cs |-> cs, ret |-> sym.ret, patched |-> patched]
         ELSE IF j = -1 THEN applyMapReloFrom(o, mapNames, fds, cs, k, i + 1, patched)
         ELSE applyMapReloFrom(o, mapNames, fds,
                 [cs EXCEPT ![k + 1].data = insns], k, i + 1,
                 IF cs[k + 1].data[(rel.r_offset \div SizeofInsn) + 1].code = BPF_LD_IMM_DW
                 THEN Append(patched, <<k, rel.r_offset \div SizeofInsn, j>>)
                 ELSE patched)

\* [cs, ret, patched]; ret is what the function's own ret holds when it returns
applyMapRelo(o, fds, cs) ==
    LET names == getSectionSymNames(o, StrMaps, AnyType)
    IN IF names.ret # RetOk THEN [cs |-> cs, ret |-> names.ret, patched |-> << >>]
       ELSE applyMapReloFrom(o, names.names, fds, cs, 0, 0, << >>)

\* getSectionSymNames(elfFile, "maps", mapNames) for each object of the
\* catalogue: [ret, names]
MapSymNames == [id \in ObjIds |-> getSectionSymNames(Obj(id), StrMaps, AnyType)]

\* ---------------------------------------------------------------- the state

VARIABLES
    kvers,      \* kernelVersion(), 0 when it cannot be told
    fuse,       \* what getFuseProgType() reads
    fs,         \* the BPF filesystem: pin path -> [obj, mode, uid, gid]
    faults,     \* system calls that have failed so far
    nextId,     \* the id of the next kernel object to be pinned
    loads,      \* loadProg calls so far
    pc,         \* where the current load stands
    obj, loc,   \* the arguments of the current load
    isCritical, \* *isCritical
    cs,         \* vector<codeSection>
    mapFds,     \* vector<unique_fd>
    fdtab,      \* kernel objects behind the descriptors FirstFd, FirstFd + 1, ...
    idx,        \* the running loop's index
    ret,        \* what loadProg returns
    trace,      \* the system calls and instruction patches of the current load
    reloRet,    \* applyMapRelo's ret when it returned
    fault,      \* a system call of the current load failed
    fs0,        \* fs when the current load began
    born,       \* pin path -> id of the kernel object first pinned there
    prev        \* the previous load, if it began with no pins and returned 0:
                \* its arguments and the filesystem it left

envVars == <<kvers, fuse>>
loadVars == <<obj, loc, isCritical, cs, mapFds, fdtab, idx, ret, trace, reloRet, fault, fs0>>
vars == <<kvers, fuse, fs, faults, nextId, loads, pc, obj, loc, isCritical, cs, mapFds, fdtab, idx,
          ret, trace, reloRet, fault, fs0, born, prev>>

\* The kernels a behaviour runs on: <<kernelVersion(), getFuseProgType()>>.
Kernels == { <<0, BPF_PROG_TYPE_UNSPEC>>, <<KVER(4, 19, 0), BPF_PROG_TYPE_UNSPEC>>,
             <<KVER(5, 10, 0), BPF_PROG_TYPE_FUSE>> }

\* The calls of loadProg a behaviour makes: <<object, location, isCritical # nullptr>>.
LoadArgs ==
    {<<o, "any", TRUE>> : o \in ObjIds}
        \cup {<<o, "t", TRUE>> : o \in {"B", "U"}}
        \cup {<<"None", "any", FALSE>>}

NoPrev == [obj |-> "none", loc |-> "none", fs |-> << >>]
NoPins == << >>

Init ==
    /\ \E k \in Kernels : kvers = k[1] /\ fuse = k[2]
    /\ fs = NoPins
    /\ faults = 0
    /\ nextId = 1
    /\ loads = 0
    /\ pc = "Idle"
    /\ obj = "none"
    /\ loc = "none"
    /\ isCritical = FALSE
    /\ cs = << >>
    /\ mapFds = << >>
    /\ fdtab = << >>
    /\ idx = 0
    /\ ret = RetOk
    /\ trace = << >>
    /\ reloRet = RetOk
    /\ fault = FALSE
    /\ fs0 = NoPins
    /\ born = NoPins
    /\ prev = NoPrev

\* access() that finds no path
C1_AccessFindsNothing(fsv, path) == FALSE

\* access(path, F_OK) == 0
PinExists(fsv, path) == path \in DOMAIN fsv

\* One entry of trace: access (with the path asked for), open, create, load,
\* pin, chmod, chown on map or program i, or patch on code section i.
Event(op, kind, i, path) == [op |-> op, kind |-> kind, i |-> i, path |-> path]

NextFd == FirstFd + Len(fdtab)

\* a new pin of kernel object ko, before chmod and chown
NewPin(ko) == [obj |-> ko, mode |-> DefaultMode, uid |-> RootId, gid |-> RootId]

WithPin(fsv, path, pin) ==
    [p \in DOMAIN fsv \cup {path} |-> IF p = path THEN pin ELSE fsv[p]]

\* ------------------------------------------------------------------ loadProg

\* loadProg up to the license: the isCritical check, the open, the critical
\* and license sections.
Open(o, l, ptrOk) ==
    /\ pc = "Idle"
    /\ loads < MaxLoads
    /\ loads' = loads + 1
    /\ obj' = o
    /\ loc' = l
    /\ cs' = << >>
    /\ mapFds' = << >>
    /\ fdtab' = << >>
    /\ idx' = 0
    /\ trace' = << >>
    /\ reloRet' = RetOk
    /\ fault' = FALSE
    /\ fs0' = fs
    /\ IF ~ptrOk
       THEN pc' = "Failed" /\ ret' = RetFail /\ isCritical' = FALSE
       ELSE IF ~Obj(o).exists
       THEN pc' = "Failed" /\ ret' = RetFail /\ isCritical' = FALSE
       ELSE /\ isCritical' = (readSectionByName(Obj(o), StrCritical) = RetOk)
            /\ IF readSectionByName(Obj(o), StrLicense) # RetOk
               THEN pc' = "Failed" /\ ret' = readSectionByName(Obj(o), StrLicense)
               ELSE pc' = "Opened" /\ ret' = RetOk
    /\ UNCHANGED <<kvers, fuse, fs, faults, nextId, born, prev>>

\* the call of readCodeSections
ReadCode ==
    /\ pc = "Opened"
    /\ LET r == readCodeSections(Obj(obj), Loc(loc).allowed, fuse)
       IN IF r.ret # RetOk
          THEN pc' = "Failed" /\ ret' = r.ret /\ cs' = << >>
          ELSE pc' = "Classified" /\ ret' = RetOk /\ cs' = r.cs
    /\ UNCHANGED <<kvers, fuse, fs, faults, nextId, loads, obj, loc, isCritical, mapFds, fdtab, idx,
                   trace, reloRet, fault, fs0, born, prev>>

\* createMaps up to its loop
CreateMapsBegin ==
    /\ pc = "Classified"
    /\ LET o == Obj(obj)
           names == MapSymNames[obj]
       IN IF readSectionByName(o, StrMaps) = RetNotFound
          THEN pc' = "MapsInstalled" /\ ret' = RetOk
          ELSE IF o.mdExtra # 0
          THEN pc' = "Failed" /\ ret' = RetFail
          ELSE IF names.ret # RetOk
          THEN pc' = "Failed" /\ ret' = names.ret
          ELSE IF Len(names.names) = 0
          THEN pc' = "MapsInstalled" /\ ret' = RetOk
          ELSE pc' = "Maps" /\ ret' = RetOk
    /\ idx' = 0
    /\ UNCHANGED <<kvers, fuse, fs, faults, nextId, loads, obj, loc, isCritical, cs, mapFds, fdtab,
                   trace, reloRet, fault, fs0, born, prev>>

\* --------------------------------------------------------------- createMaps

\* What md[i] holds. createMaps indexes md by the position of the map name and
\* never compares the two sizes: past the end of md the read is of whatever
\* memory follows, here a record that looks like a map or one with zero set.
GarbageDefs == {M_zero, MapDef(BPF_MAP_TYPE_HASH, 4, 16, 0, KVerMax, FALSE, Mode660, GidNet)}
MdAt(o, i) == IF i < Len(o.md) THEN {o.md[i + 1]} ELSE GarbageDefs

\* How the system calls of one loop iteration end: all succeed, or the one
\* named fails (open: BPF_MAP_CREATE / BPF_OBJ_GET / BPF_PROG_LOAD's descriptor).
Outcomes == {"ok", "open_fail", "pin_fail", "chmod_fail", "chown_fail"}

\* bpfFdPin, chmod and chown of a new object at path, as far as `out` lets
\* them succeed: [ok, fs, events]. The kernel refuses to pin over a path.
PinChmodChown(fsv, kind, i, path, ko, mode, uid, gid, out) ==
    LET pinned == out # "pin_fail" /\ path \notin DOMAIN fsv
        chmodded == pinned /\ out # "chmod_fail"
        chowned == chmodded /\ out # "chown_fail"
        pin == [obj |-> ko,
                mode |-> IF chmodded THEN mode ELSE DefaultMode,
                uid |-> IF chowned THEN uid ELSE RootId,
                gid |-> IF chowned THEN gid ELSE RootId]
    IN [ok |-> chowned,
        fs |-> IF pinned THEN WithPin(fsv, path, pin) ELSE fsv,
        events |-> <<Event("pin", kind, i, NoChars)>>
                   \o (IF pinned THEN <<Event("chmod", kind, i, NoChars)>> ELSE << >>)
                   \o (IF chmodded THEN <<Event("chown", kind, i, NoChars)>> ELSE << >>)]

\* One iteration of createMaps' loop on map i (from 0) read as def, its system
\* calls ending as out: the state it leaves ([valid |-> FALSE] when this
\* iteration has no such ending).
MapStep(o, i, def, out) ==
    LET names == MapSymNames[obj].names
        type == AdjustedType(def, kvers)
        path == mapPinLoc(o, Loc(loc).prefix, def, names[i + 1])
        reuse == PinExists(fs, path)
        live == IF reuse THEN fs[path].obj
                ELSE KernelMap(CreateReq(def, kvers), nextId)
        opened == <<Event("access", "map", i, path),
                    Event(IF reuse THEN "open" ELSE "create", "map", i, NoChars)>>
        ppc == PinChmodChown(fs, "map", i, path, live, def.mode, def.uid, def.gid, out)
        same == [valid |-> TRUE, pc |-> "Maps", ret |-> ret, fs |-> fs,
                 mapFds |-> mapFds, fdtab |-> fdtab, idx |-> idx, trace |-> trace,
                 fault |-> fault]
        nextPc == IF i + 1 >= Len(names) THEN "MapsInstalled" ELSE "Maps"
    IN IF def.zero # 0
       THEN IF out = "ok" THEN [same EXCEPT !.pc = "Aborted"] ELSE [valid |-> FALSE]
       ELSE IF ~KverInRange(kvers, def)
       THEN IF out = "ok"
            THEN [same EXCEPT !.pc = nextPc, !.idx = i + 1,
                              !.mapFds = Append(mapFds, InvalidFd)]
            ELSE [valid |-> FALSE]
       ELSE IF out = "open_fail"
       THEN [same EXCEPT !.pc = "Failed", !.ret = -EnvErrno, !.fault = TRUE,
                         !.trace = trace \o opened]
       ELSE IF ~mapMatchesExpectations(live, def, type)
       THEN IF out = "ok"
            THEN [same EXCEPT !.pc = "Failed", !.ret = RetENOTUNIQ,
                              !.trace = trace \o opened,
                              !.fdtab = Append(fdtab, live)]
            ELSE [valid |-> FALSE]
       ELSE IF reuse
       THEN IF out = "ok"
            THEN [same EXCEPT !.pc = nextPc, !.idx = i + 1,
                              !.trace = trace \o opened,
                              !.fdtab = Append(fdtab, live),
                              !.mapFds = Append(mapFds, NextFd)]
            ELSE [valid |-> FALSE]
       ELSE IF ppc.ok
       THEN [same EXCEPT !.pc = nextPc, !.idx = i + 1, !.fs = ppc.fs,
                         !.trace = trace \o opened \o ppc.events,
                         !.fdtab = Append(fdtab, live),
                         !.mapFds = Append(mapFds, NextFd)]
       ELSE [same EXCEPT !.pc = "Failed", !.ret = -EnvErrno, !.fault = TRUE,
                         !.fs = ppc.fs,
                         !.trace = trace \o opened \o ppc.events,
                         !.fdtab = Append(fdtab, live)]

\* the ids of the objects first pinned at the paths of fsv
Born(fsv) ==
    [p \in DOMAIN fsv |-> IF p \in DOMAIN born THEN born[p] ELSE fsv[p].obj.id]

\* one iteration of createMaps' loop
CreateMapStep ==
    /\ pc = "Maps"
    /\ \E def \in MdAt(Obj(obj), idx) : \E out \in Outcomes :
         LET r == MapStep(Obj(obj), idx, def, out)
         IN /\ r.valid
            /\ r.fault /\ ~fault => faults < MaxFaults
            /\ pc' = r.pc
            /\ ret' = r.ret
            /\ fs' = r.fs
            /\ faults' = IF r.fault /\ ~fault THEN faults + 1 ELSE faults
            /\ mapFds' = r.mapFds
            /\ fdtab' = r.fdtab
            /\ idx' = r.idx
            /\ trace' = r.trace
            /\ fault' = r.fault
            /\ born' = Born(r.fs)
            /\ nextId' = IF DOMAIN r.fs # DOMAIN fs THEN nextId + 1 ELSE nextId
    /\ UNCHANGED <<kvers, fuse, loads, obj, loc, isCritical, cs, reloRet, fs0, prev>>

\* loadProg without its call of applyMapRelo
C5_RelocationSkipped ==
    /\ pc = "MapsInstalled"
    /\ pc' = "Relocated"
    /\ UNCHANGED <<kvers, fuse, fs, faults, nextId, loads, obj, loc, isCritical, cs, mapFds, fdtab,
                   idx, ret, trace, reloRet, fault, fs0, born, prev>>

\* the call of applyMapRelo
ApplyMapRelo ==
    /\ pc = "MapsInstalled"
    /\ LET r == applyMapRelo(Obj(obj), mapFds, cs)
       IN /\ cs' = r.cs
          /\ reloRet' = r.ret
          /\ trace' = trace \o [n \in 1..Len(r.patched) |->
                                   Event("patch", "insn", r.patched[n][1], NoChars)]
    /\ pc' = "Relocated"
    /\ UNCHANGED <<kvers, fuse, fs, faults, nextId, loads, obj, loc, isCritical, mapFds, fdtab, idx,
                   ret, fault, fs0, born, prev>>

\* --------------------------------------------------------- loadCodeSections

\* a rejected program that is never let through
C9_OptionalIgnored(c) == FALSE

\* cs[i].prog_def->optional
prog_def_optional(c) == c.prog_def[1].optional

\* the verifier's verdict on code section c of object o
VerifierRejects(o, c) == ShAt(o, c.sec).bad

\* loadCodeSections up to its loop
LoadCodeSectionsBegin ==
    /\ pc = "Relocated"
    /\ IF kvers = 0
       THEN pc' = "Failed" /\ ret' = RetEINVAL
       ELSE IF Len(cs) = 0
       THEN pc' = "Done" /\ ret' = RetOk
       ELSE pc' = "Progs" /\ ret' = RetOk
    /\ idx' = 0
    /\ UNCHANGED <<kvers, fuse, fs, faults, nextId, loads, obj, loc, isCritical, cs, mapFds, fdtab,
                   trace, reloRet, fault, fs0, born, prev>>

\* One iteration of loadCodeSections' loop on code section i (from 0), its
\* system calls ending as out: the state it leaves.
ProgStep(o, i, out) ==
    LET c == cs[i + 1]
        def == c.prog_def[1]
        path == progPinLoc(o, Loc(loc).prefix, c.name)
        reuse == PinExists(fs, path)
        live == IF reuse THEN fs[path].obj ELSE KernelProg(nextId)
        opened == <<Event("access", "prog", i, path),
                    Event(IF reuse THEN "open" ELSE "load", "prog", i, NoChars)>>
        ppc == PinChmodChown(fs, "prog", i, path, live, ProgMode, def.uid, def.gid, out)
        same == [valid |-> TRUE, pc |-> "Progs", ret |-> ret, fs |-> fs,
                 cs |-> cs, fdtab |-> fdtab, idx |-> idx, trace |-> trace, fault |-> fault]
        nextPc == IF i + 1 >= Len(cs) THEN "Done" ELSE "Progs"
    IN IF Len(c.prog_def) = 0
       THEN IF out = "ok" THEN [same EXCEPT !.pc = "Failed", !.ret = RetEINVAL]
            ELSE [valid |-> FALSE]
       ELSE IF ~KverInRange(kvers, def)
       THEN IF out = "ok" THEN [same EXCEPT !.pc = nextPc, !.idx = i + 1]
            ELSE [valid |-> FALSE]
       ELSE IF reuse
       THEN IF out = "ok"
            THEN [same EXCEPT !.pc = nextPc, !.idx = i + 1,
                              !.trace = trace \o opened,
                              !.fdtab = Append(fdtab, live),
                              !.cs = [cs EXCEPT ![i + 1].prog_fd = NextFd]]
            ELSE IF out = "open_fail"
            THEN [same EXCEPT !.pc = "Failed", !.ret = InvalidFd, !.fault = TRUE,
                              !.trace = trace \o opened]
            ELSE [valid |-> FALSE]
       ELSE IF VerifierRejects(o, c) \/ out = "open_fail"
       THEN IF VerifierRejects(o, c) /\ out # "ok" THEN [valid |-> FALSE]
            ELSE IF prog_def_optional(c)
            THEN [same EXCEPT !.pc = nextPc, !.idx = i + 1,
                              !.trace = trace \o opened,
                              !.fault = fault \/ out = "open_fail"]
            ELSE [same EXCEPT !.pc = "Failed", !.ret = InvalidFd,
                              !.trace = trace \o opened,
                              !.fault = fault \/ out = "open_fail"]
       ELSE IF ppc.ok
       THEN [same EXCEPT !.pc = nextPc, !.idx = i + 1, !.fs = ppc.fs,
                         !.trace = trace \o opened \o ppc.events,
                         !.fdtab = Append(fdtab, live),
                         !.cs = [cs EXCEPT ![i + 1].prog_fd = NextFd]]
       ELSE [same EXCEPT !.pc = "Failed", !.ret = -EnvErrno, !.fault = TRUE,
                         !.fs = ppc.fs,
                         !.trace = trace \o opened \o ppc.events,
                         !.fdtab = Append(fdtab, live),
                         !.cs = [cs EXCEPT ![i + 1].prog_fd = NextFd]]

\* one iteration of loadCodeSections' loop
LoadCodeSectionStep ==
    /\ pc = "Progs"
    /\ \E out \in Outcomes :
         LET r == ProgStep(Obj(obj), idx, out)
         IN /\ r.valid
            /\ r.fault /\ ~fault => faults < MaxFaults
            /\ pc' = r.pc
            /\ ret' = r.ret
            /\ fs' = r.fs
            /\ faults' = IF r.fault /\ ~fault THEN faults + 1 ELSE faults
            /\ cs' = r.cs
            /\ fdtab' = r.fdtab
            /\ idx' = r.idx
            /\ trace' = r.trace
            /\ fault' = r.fault
            /\ born' = Born(r.fs)
            /\ nextId' = IF DOMAIN r.fs # DOMAIN fs THEN nextId + 1 ELSE nextId
    /\ UNCHANGED <<kvers, fuse, loads, obj, loc, isCritical, mapFds, reloRet, fs0, prev>>

\* loadProg has returned (or the process has aborted): its descriptors are
\* closed, its pins stay.
Return ==
    /\ pc \in {"Done", "Failed", "Aborted"}
    /\ pc' = "Idle"
    /\ prev' = IF fs0 = NoPins /\ pc = "Done"
               THEN [obj |-> obj, loc |-> loc, fs |-> fs]
               ELSE NoPrev
    /\ obj' = "none"
    /\ loc' = "none"
    /\ isCritical' = FALSE
    /\ cs' = << >>
    /\ mapFds' = << >>
    /\ fdtab' = << >>
    /\ idx' = 0
    /\ ret' = RetOk
    /\ trace' = << >>
    /\ reloRet' = RetOk
    /\ fault' = FALSE
    /\ fs0' = NoPins
    /\ UNCHANGED <<kvers, fuse, fs, faults, nextId, loads, born>>

Next ==
    \/ \E a \in LoadArgs : Open(a[1], a[2], a[3])
    \/ ReadCode
    \/ CreateMapsBegin
    \/ CreateMapStep
    \/ ApplyMapRelo
    \/ LoadCodeSectionsBegin
    \/ LoadCodeSectionStep
    \/ Return

Spec == Init /\ [][Next]_vars

\* ---------------------------------------------------------------- properties

\* the events this step appends to trace
Appended == SubSeq(trace', Len(trace) + 1, Len(trace'))
Ops(events) == {events[n].op : n \in 1..Len(events)}

\* this step is an iteration of createMaps' or loadCodeSections' loop that
\* makes system calls
Processes == pc \in {"Maps", "Progs"} /\ Len(trace') > Len(trace)

\* the running kernel is outside [min_kver, max_kver)
OutOfRange(def) == kvers < def.min_kver \/ kvers >= def.max_kver

\* the attributes the kernel reports of a map, and the ones a MapDef asks for
\* after the type, max-entries and flag adjustments
ShapeOf(live) ==
    [type |-> live.type, key_size |-> live.key_size, value_size |-> live.value_size,
     max_entries |-> live.max_entries, map_flags |-> live.map_flags]
DesiredShape(def) ==
    LET type == IF def.type = BPF_MAP_TYPE_DEVMAP_HASH /\ kvers < KVER(5, 4, 0)
                THEN BPF_MAP_TYPE_HASH ELSE def.type
    IN [type |-> type, key_size |-> def.key_size, value_size |-> def.value_size,
        max_entries |-> IF type = BPF_MAP_TYPE_RINGBUF /\ def.max_entries < page_size
                        THEN page_size ELSE def.max_entries,
        map_flags |-> IF type \in {BPF_MAP_TYPE_DEVMAP, BPF_MAP_TYPE_DEVMAP_HASH}
                      THEN def.map_flags \cup {RDONLY_PROG} ELSE def.map_flags]

\* C1: a map or program whose pin path exists when it is processed is opened,
\* and nothing is created, loaded, pinned, chmodded or chowned for it; pin,
\* chmod and chown are issued only together with the create or load of the
\* same item; and over all loads the kernel object behind a pin path never
\* changes once the pin exists.
C1_ReuseNeverOverwrite ==
    [][ /\ Processes =>
             /\ Appended[1].op = "access"
             /\ \A n \in 1..Len(Appended) :
                   Appended[n].kind = Appended[1].kind /\ Appended[n].i = Appended[1].i
             /\ IF Appended[1].path \in DOMAIN fs
                THEN Ops(Appended) = {"access", "open"} /\ fs' = fs
                ELSE /\ "open" \notin Ops(Appended)
                     /\ Ops(Appended) \cap {"pin", "chmod", "chown"} # {}
                           => Ops(Appended) \cap {"create", "load"} # {}
        /\ \A p \in DOMAIN fs : p \in DOMAIN fs' /\ fs'[p].obj = fs[p].obj
      ]_vars

\* a second load that has found a map and a program pinned and is done
C1_Witness ==
    /\ pc = "Done"
    /\ \E a, b \in 1..Len(trace) :
          /\ trace[a].op = "access" /\ trace[a].kind = "map" /\ trace[a].path \in DOMAIN fs0
          /\ trace[a + 1].op = "open"
          /\ trace[b].op = "access" /\ trace[b].kind = "prog" /\ trace[b].path \in DOMAIN fs0
          /\ trace[b + 1].op = "open"

\* C2: when createMaps holds a descriptor of a map, opened from an existing
\* pin or just created, whose live type, key size, value size, max entries or
\* flags differ from the desired ones, the load returns -ENOTUNIQ, the
\* filesystem is as it was, no program has been or will be submitted; and
\* -ENOTUNIQ is returned in no other case.
C2_ShapeEnforced ==
    [][ /\ (pc = "Maps" /\ idx < Len(Obj(obj).md) /\ Len(fdtab') > Len(fdtab)) =>
             IF ShapeOf(fdtab'[Len(fdtab')]) # DesiredShape(Obj(obj).md[idx + 1])
             THEN /\ pc' = "Failed"
                  /\ ret' = RetENOTUNIQ
                  /\ fs' = fs
                  /\ "load" \notin Ops(trace')
             ELSE ret' # RetENOTUNIQ
        /\ pc = "Failed" => pc' = "Idle"
      ]_vars

\* a load has failed with -ENOTUNIQ on a map it opened from an existing pin
C2_Witness ==
    /\ pc = "Failed"
    /\ ret = RetENOTUNIQ
    /\ Len(trace) >= 2
    /\ trace[Len(trace)].op = "open"
    /\ trace[Len(trace)].kind = "map"
    /\ trace[Len(trace) - 1].path \in DOMAIN fs0

\* C3: the load of the object and location that were just loaded against a
\* clean filesystem with result 0, none of its system calls failing, does not
\* fail, returns 0, leaves the filesystem as the first load left it and
\* issues no create-map and no load-program request.
C3_Idempotence ==
    (pc # "Idle" /\ prev.obj = obj /\ prev.loc = loc /\ ~fault) =>
        /\ pc \notin {"Failed", "Aborted"}
        /\ pc = "Done" => ret = RetOk
        /\ fs = prev.fs
        /\ \A n \in 1..Len(trace) : trace[n].op \notin {"create", "load"}

\* C4: a MapDef or ProgDef whose range excludes the running kernel is passed
\* over: no system call is made for it, no pin appears, the map's entry of
\* mapFds is the invalid descriptor, the program's prog_fd stays invalid, and
\* the loop goes on with the result unchanged; where the kernel version is
\* known loadCodeSections enters its loop, and a load that gets through its
\* programs returns 0.
C4_VersionGating ==
    [][ /\ (pc = "Maps" /\ idx < Len(Obj(obj).md) /\ OutOfRange(Obj(obj).md[idx + 1])) =>
             /\ trace' = trace
             /\ fs' = fs
             /\ fdtab' = fdtab
             /\ mapFds' = Append(mapFds, InvalidFd)
             /\ pc' \in {"Maps", "MapsInstalled"}
             /\ ret' = ret
        /\ (pc = "Progs" /\ Len(cs[idx + 1].prog_def) = 1
                /\ OutOfRange(cs[idx + 1].prog_def[1])) =>
             /\ trace' = trace
             /\ fs' = fs
             /\ fdtab' = fdtab
             /\ cs' = cs
             /\ cs[idx + 1].prog_fd = InvalidFd
             /\ pc' \in {"Progs", "Done"}
             /\ ret' = ret
        /\ (pc = "Relocated" /\ kvers # 0) => pc' \in {"Progs", "Done"}
        /\ pc' = "Done" => ret' = RetOk
      ]_vars

\* a load has returned 0 having passed over a map and a program
C4_Witness ==
    /\ pc = "Done"
    /\ ret = RetOk
    /\ \E i \in 1..Len(mapFds) :
          mapFds[i] = InvalidFd /\ OutOfRange(Obj(obj).md[i])
    /\ \E k \in 1..Len(cs) :
          cs[k].prog_fd = InvalidFd /\ OutOfRange(cs[k].prog_def[1])

\* 1 for the system calls on maps, 2 for instruction patches, 3 for the
\* system calls on programs
Phase(e) == IF e.kind = "map" THEN 1 ELSE IF e.kind = "insn" THEN 2 ELSE 3

C6_OrderPreservation ==
    /\ pc = "Maps" => idx < Len(Obj(obj).md)
    /\ pc \in {"MapsInstalled", "Relocated", "Progs", "Done"} =>
          /\ Len(mapFds) = Len(Obj(obj).md)
          /\ Len(mapFds) = Len(MapSymNames[obj].names)

\* C7: after applyMapRelo every instruction with the LD_IMM64 opcode that a
\* relocation entry naming a map points at holds that map's descriptor as its
\* immediate and BPF_PSEUDO_MAP_FD as its source register, its other fields
\* as in the file; every other instruction is as in the file.
C7_RelocationCorrect ==
    pc \in {"Relocated", "Progs", "Done"} =>
        \A k \in 1..Len(cs) :
            LET o == Obj(obj)
                orig == ShAt(o, cs[k].sec).data
                rels == cs[k].rel_data
                names == MapSymNames[obj].names
                \* the map index behind relocation entry r, -1 for none
                MapOf(r) == IF rels[r].sym < Len(o.symtab)
                            THEN MapIndex(names, o.symtab[rels[r].sym + 1].name)
                            ELSE -1
                Hits(n) == {r \in 1..Len(rels) :
                               /\ rels[r].r_offset \div SizeofInsn = n - 1
                               /\ MapOf(r) # -1}
            IN \A n \in 1..Len(orig) :
                  IF orig[n].code = BPF_LD_IMM_DW /\ Hits(n) # {}
                  THEN \E r \in Hits(n) :
                          cs[k].data[n] = [orig[n] EXCEPT !.imm = mapFds[MapOf(r) + 1],
                                                          !.src_reg = BPF_PSEUDO_MAP_FD]
                  ELSE cs[k].data[n] = orig[n]

\* object o holds a section of a recognized program type that the list does
\* not allow
HasDisallowedSection(o, allowed) ==
    \E i \in 0..(NSections(o) - 1) :
        /\ getSectionType(ShAt(o, i).name, fuse) # BPF_PROG_TYPE_UNSPEC
        /\ ~IsAllowed(getSectionType(ShAt(o, i).name, fuse), allowed, fuse)

\* C8: a load whose location has an allow-list and whose object holds a
\* section of a recognized type outside it gets nowhere past
\* readCodeSections: it fails with -1 and no system call on a map or a
\* program is made; a null allow-list allows every recognized type.
C8_DisallowedRejected ==
    /\ (pc \notin {"Idle", "Opened"} /\ ~Loc(loc).allowed.null
            /\ HasDisallowedSection(Obj(obj), Loc(loc).allowed)) =>
          /\ pc = "Failed"
          /\ ret = RetFail
          /\ trace = << >>
    /\ \A k \in 1..Len(sectionNameTypes) :
          IsAllowed(sectionNameTypes[k].type, Loc("any").allowed, fuse)

\* C9: when the verifier rejects a program submitted in this load, nothing
\* is pinned and its prog_fd stays invalid; if its ProgDef is optional the
\* loop goes on with the next code section and the result is untouched (a
\* load that gets through its programs returns 0); if not, the load fails
\* with -1 and does nothing more.
C9_VerifierRejection ==
    [][ /\ (/\ pc = "Progs"
            /\ Len(cs[idx + 1].prog_def) = 1
            /\ ~OutOfRange(cs[idx + 1].prog_def[1])
            /\ progPinLoc(Obj(obj), Loc(loc).prefix, cs[idx + 1].name) \notin DOMAIN fs
            /\ ShAt(Obj(obj), cs[idx + 1].sec).bad) =>
             /\ Ops(Appended) = {"access", "load"}
             /\ fs' = fs
             /\ cs'[idx + 1].prog_fd = InvalidFd
             /\ IF cs[idx + 1].prog_def[1].optional
                THEN /\ idx' = idx + 1
                     /\ pc' = IF idx + 1 < Len(cs) THEN "Progs" ELSE "Done"
                     /\ ret' = ret
                     /\ fault' = fault
                ELSE /\ pc' = "Failed"
                     /\ ret' = -1
        /\ pc = "Failed" => pc' = "Idle"
        /\ pc' = "Done" => ret' = RetOk
      ]_vars

\* a load has returned 0 after the verifier rejected an optional program
C9_Witness ==
    /\ pc = "Done"
    /\ ret = RetOk
    /\ \E n \in 1..Len(trace) :
          /\ trace[n].op = "load"
          /\ cs[trace[n].i + 1].prog_def[1].optional
          /\ ShAt(Obj(obj), cs[trace[n].i + 1].sec).bad
          /\ cs[trace[n].i + 1].prog_fd = InvalidFd
          /\ trace[n - 1].path \notin DOMAIN fs

\* C10: loadCodeSections runs, and the load can end with 0, only if every
\* step before it has returned without failure: applyMapRelo, given the map
\* names, has resolved the symbol of every relocation entry.
C10_Linear ==
    /\ (pc \in {"Progs", "Done"} /\ MapSymNames[obj].ret = RetOk) => reloRet = RetOk
    /\ pc = "Done" => ret = RetOk

\* C11: every instruction applyMapRelo has patched (its source register is
\* BPF_PSEUDO_MAP_FD) holds as immediate a descriptor of mapFds that is open
\* on a map created or reused in this load, never the invalid descriptor.
C11_RelocatedMapsExist ==
    pc \in {"Relocated", "Progs", "Done"} =>
        \A k \in 1..Len(cs) : \A n \in 1..Len(cs[k].data) :
            cs[k].data[n].src_reg = BPF_PSEUDO_MAP_FD =>
                /\ cs[k].data[n].imm # InvalidFd
                /\ \E j \in 1..Len(mapFds) : mapFds[j] = cs[k].data[n].imm
                /\ cs[k].data[n].imm - FirstFd + 1 \in 1..Len(fdtab)
                /\ fdtab[cs[k].data[n].imm - FirstFd + 1].kind = "map"

\* program names a section name ends with
ProgNames == {<<"x">>, <<"sched", "_", "switch">>, <<"c", "$", "y">>}

\* C12: for every prefix p of sectionNameTypes and every section name that
\* starts with p, getSectionName(getSectionType(name)) starts with p.
C12_RoundTrip ==
    \A k \in 1..Len(sectionNameTypes) : \A n \in ProgNames :
        StartsWith(getSectionName(getSectionType(sectionNameTypes[k].name \o n, fuse)),
                   sectionNameTypes[k].name)

\* the ProgDef whose symbol is the first function symbol of code section c
\* of object o plus "_def": the empty sequence or one record
MatchingProgDef(o, c) ==
    LET funcs == getSectionSymNames(o, ShAt(o, c.sec).name, "FUNC").names
        defs == getSectionSymNames(o, StrProgs, AnyType).names
        hits == {j \in 1..Len(defs) : defs[j] = funcs[1] \o StrDef}
    IN IF hits = {} THEN << >> ELSE << o.pd[CHOOSE j \in hits : \A h \in hits : j <= h] >>

\* C13: the prog_def of every code section readCodeSections keeps is the
\* ProgDef named <function symbol>_def, or absent when there is none; no
\* system call is ever made for a code section without one; a load that
\* returns 0 has one for every code section; and loadCodeSections, reaching a
\* code section without one, fails with -EINVAL and touches nothing.
C13_ProgDefRequired ==
    [][ /\ pc' = "Classified" =>
             \A k \in 1..Len(cs') : cs'[k].prog_def = MatchingProgDef(Obj(obj), cs'[k])
        /\ \A n \in 1..Len(trace') :
              trace'[n].kind = "prog" => Len(cs'[trace'[n].i + 1].prog_def) = 1
        /\ pc' = "Done" => \A k \in 1..Len(cs') : Len(cs'[k].prog_def) = 1
        /\ (pc = "Progs" /\ Len(cs[idx + 1].prog_def) = 0) =>
             /\ pc' = "Failed"
             /\ ret' = RetEINVAL
             /\ fs' = fs
             /\ trace' = trace
             /\ cs' = cs
        /\ pc = "Failed" => pc' = "Idle"
      ]_vars

\* a load has pinned a program and then failed with -EINVAL on a code
\* section that has no ProgDef
C13_Witness ==
    /\ pc = "Failed"
    /\ ret = RetEINVAL
    /\ 0 < idx /\ idx < Len(cs)
    /\ Len(cs[idx + 1].prog_def) = 0
    /\ cs[idx].prog_fd # InvalidFd
    /\ \E n \in 1..Len(trace) : trace[n].op = "pin" /\ trace[n].kind = "prog"

\* where the i-th map (from 0) of the object being loaded is to be pinned:
\* <root><prefix>map_<object name, or nothing when shared>_<map name>
ExpectedMapPin(i) ==
    <<"/sys/fs/bpf/">> \o Loc(loc).prefix \o <<"map_">>
        \o (IF Obj(obj).md[i + 1].shared THEN << >> ELSE pathToObjName(Obj(obj).path))
        \o <<"_">> \o MapSymNames[obj].names[i + 1]

\* C14: createMaps looks for a map at <root><prefix>map__<name> when the
\* MapDef is shared and at <root><prefix>map_<object>_<name> when it is not,
\* and creates no pin anywhere else; when a map of the desired shape is
\* pinned there (by whatever object) and no system call fails, the
\* iteration succeeds with that very map behind its descriptor and the
\* filesystem unchanged, so the map keeps its one pin.
C14_SharedMapReuse ==
    [][ (pc = "Maps" /\ idx < Len(Obj(obj).md) /\ ~OutOfRange(Obj(obj).md[idx + 1])
            /\ Obj(obj).md[idx + 1].zero = 0) =>
          /\ Len(Appended) > 0
          /\ Appended[1].op = "access"
          /\ Appended[1].path = ExpectedMapPin(idx)
          /\ DOMAIN fs' \subseteq DOMAIN fs \cup {ExpectedMapPin(idx)}
          /\ idx' = idx + 1 =>
                /\ ExpectedMapPin(idx) \in DOMAIN fs'
                /\ fs'[ExpectedMapPin(idx)].obj = fdtab'[Len(fdtab')]
                /\ mapFds' = Append(mapFds, FirstFd + Len(fdtab))
          /\ (/\ ExpectedMapPin(idx) \in DOMAIN fs
              /\ ShapeOf(fs[ExpectedMapPin(idx)].obj) = DesiredShape(Obj(obj).md[idx + 1])
              /\ fault' = fault) =>
                /\ idx' = idx + 1
                /\ pc' \in {"Maps", "MapsInstalled"}
                /\ ret' = ret
                /\ fs' = fs
                /\ fdtab'[Len(fdtab')] = fs[ExpectedMapPin(idx)].obj
      ]_vars

\* Two objects have been loaded one after the other at one location, both
\* with result 0: the second has opened the shared map the first pinned at
\* <root><prefix>map__<name>, and created a map of its own under its name.
C14_Witness ==
    /\ pc = "Done"
    /\ ret = RetOk
    /\ prev.obj \notin {"none", obj}
    /\ prev.loc = loc
    /\ Len(mapFds) = Len(Obj(obj).md)
    /\ \E i, j \in 1..Len(mapFds) :
          /\ Obj(obj).md[i].shared
          /\ mapFds[i] # InvalidFd
          /\ ExpectedMapPin(i - 1) \in DOMAIN prev.fs
          /\ ExpectedMapPin(i - 1)[Len(Loc(loc).prefix) + 3] = "_"
          /\ fdtab[mapFds[i] - FirstFd + 1] = prev.fs[ExpectedMapPin(i - 1)].obj
          /\ fs[ExpectedMapPin(i - 1)] = prev.fs[ExpectedMapPin(i - 1)]
          /\ ~Obj(obj).md[j].shared
          /\ mapFds[j] # InvalidFd
          /\ ExpectedMapPin(j - 1) \in DOMAIN fs
          /\ ExpectedMapPin(j - 1) \notin DOMAIN prev.fs

\* C15: when a load has returned 0, the pin of every map it created or
\* reused carries the mode, uid and gid of its MapDef, and the pin of every
\* program it loaded or reused carries mode 0440 and the uid and gid of its
\* ProgDef.
C15_PermissionsApplied ==
    pc = "Done" =>
        /\ \A i \in 1..Len(Obj(obj).md) :
              (i <= Len(mapFds) /\ mapFds[i] # InvalidFd) =>
                  /\ fs[ExpectedMapPin(i - 1)].mode = Obj(obj).md[i].mode
                  /\ fs[ExpectedMapPin(i - 1)].uid = Obj(obj).md[i].uid
                  /\ fs[ExpectedMapPin(i - 1)].gid = Obj(obj).md[i].gid
        /\ \A k \in 1..Len(cs) :
              cs[k].prog_fd # InvalidFd =>
                  LET pin == fs[progPinLoc(Obj(obj), Loc(loc).prefix, cs[k].name)]
                  IN /\ pin.mode = ProgMode
                     /\ pin.uid = cs[k].prog_def[1].uid
                     /\ pin.gid = cs[k].prog_def[1].gid

\* section i of object o is a code section readCodeSections has to keep: its
\* name has a recognized prefix, its type is allowed and it has code
IsLoadableSection(o, i, allowed) ==
    /\ getSectionType(ShAt(o, i).name, fuse) # BPF_PROG_TYPE_UNSPEC
    /\ IsAllowed(getSectionType(ShAt(o, i).name, fuse), allowed, fuse)
    /\ Len(ShAt(o, i).data) > 0

\* C16: once readCodeSections has reported success, every recognized,
\* allowed, non-empty section of the object is in the cs list, and a load
\* that returns 0 has submitted or found pinned the program of each of them
\* whose ProgDef is in range of the kernel version.
C16_NoSectionDropped ==
    /\ pc \in {"Classified", "Maps", "MapsInstalled", "Relocated", "Progs", "Done"} =>
          \A i \in 0..(NSections(Obj(obj)) - 1) :
              IsLoadableSection(Obj(obj), i, Loc(loc).allowed) =>
                  \E k \in 1..Len(cs) : cs[k].sec = i
    /\ pc = "Done" =>
          \A i \in 0..(NSections(Obj(obj)) - 1) :
              IsLoadableSection(Obj(obj), i, Loc(loc).allowed) =>
                  \E k \in 1..Len(cs) :
                      /\ cs[k].sec = i
                      /\ KverInRange(kvers, cs[k].prog_def[1]) =>
                            \/ cs[k].prog_fd # InvalidFd
                            \/ (prog_def_optional(cs[k]) /\ VerifierRejects(Obj(obj), cs[k]))

====
